---- MODULE Spec2Model ----
(***************************************************************************)
(* A model of UpSession.go: the upstream session of the BTCAgent proxy.    *)
(* It covers the handshake run by Init (connect, the four requests, the    *)
(* response-consumption loop over JSON lines and Ex-Message frames), and   *)
(* the attach path (AddStratumSession, SendEvent, Run, handleEvent).       *)
(***************************************************************************)
EXTENDS Integers, Sequences, FiniteSets, TLC

(***************************************************************************)
(* Bounds of the model.                                                    *)
(***************************************************************************)
\* at most this many unread tokens (bytes or lines) wait in the reader
MaxInbound == 6
\* at most this many of the four request writes fail in one run
MaxWriteFails == 1
\* the largest total length an Ex-Message header of the model declares
MaxExLen == 5

(***************************************************************************)
(* AuthorizeStat: the status values, in the order of their declaration.    *)
(***************************************************************************)
StatDisconnected == "Disconnected"
StatConnecting == "Connecting"
StatConnected == "Connected"
StatSubScribed == "SubScribed"
StatAuthorized == "Authorized"

AuthorizeStat ==
    {StatDisconnected, StatConnecting, StatConnected, StatSubScribed, StatAuthorized}

StatOrd(s) ==
    CASE s = StatDisconnected -> 0
      [] s = StatConnecting -> 1
      [] s = StatConnected -> 2
      [] s = StatSubScribed -> 3
      [] s = StatAuthorized -> 4

(***************************************************************************)
(* Values of Go types.  A uint32 is kept as its two 16-bit halves, so that *)
(* the full 32-bit range and its overflow are exact.  An int is the int of *)
(* a 32-bit build; MinInt and MaxInt are its ends.                         *)
(***************************************************************************)
Half == 65536
MaxInt == 2147483647
MinInt == (0 - 2147483647) - 1

U32(hi, lo) == [hi |-> hi, lo |-> lo]
U32Zero == U32(0, 0)

(***************************************************************************)
(* Decoded JSON values (interface{} after json.Unmarshal): null, bool,     *)
(* float64, string, []interface{}, map[string]interface{}.  A string is a  *)
(* tuple of one-character strings.  A float64 is num/den, or, with fin     *)
(* FALSE, a value beyond the range of int (its sign in num).               *)
(***************************************************************************)
JNull == [k |-> "null"]
JBool(b) == [k |-> "bool", b |-> b]
JNum(n, d) == [k |-> "num", fin |-> TRUE, num |-> n, den |-> d]
JHuge(sign) == [k |-> "num", fin |-> FALSE, num |-> sign, den |-> 1]
JStr(s) == [k |-> "str", s |-> s]
JArr(a) == [k |-> "arr", a |-> a]
\* an object is its set of field names and the value of field "capabilities"
JObj(fields, caps) == [k |-> "obj", fields |-> fields, caps |-> caps]

IsStr(v) == v.k = "str"
IsNum(v) == v.k = "num"
IsBool(v) == v.k = "bool"
IsArr(v) == v.k = "arr"
IsObj(v) == v.k = "obj"

(***************************************************************************)
(* strconv.ParseUint(s, 16, 32).                                           *)
(***************************************************************************)
HexLower == <<"0", "1", "2", "3", "4", "5", "6", "7", "8", "9",
              "a", "b", "c", "d", "e", "f">>
HexUpper == <<"0", "1", "2", "3", "4", "5", "6", "7", "8", "9",
              "A", "B", "C", "D", "E", "F">>

\* the value of one digit; 36 for a byte that is no digit of any base
DigitVal(c) ==
    IF \E i \in 1..16 : HexLower[i] = c
    THEN (CHOOSE i \in 1..16 : HexLower[i] = c) - 1
    ELSE IF \E i \in 1..16 : HexUpper[i] = c
    THEN (CHOOSE i \in 1..16 : HexUpper[i] = c) - 1
    ELSE 36

\* the accumulation n = n*16 + d from digit i on, with the 32-bit range
\* check; hi and lo are the halves of the value of the digits before i
RECURSIVE ParseUintFrom(_, _, _, _)
ParseUintFrom(s, i, hi, lo) ==
    IF i > Len(s) THEN [err |-> FALSE, val |-> U32(hi, lo)]
    ELSE LET d == DigitVal(s[i])
             lo2 == lo * 16 + d
             hi2 == hi * 16 + (lo2 \div Half)
         IN IF d >= 16 THEN [err |-> TRUE, val |-> U32Zero]
            ELSE IF hi2 >= Half THEN [err |-> TRUE, val |-> U32(Half - 1, Half - 1)]
            ELSE ParseUintFrom(s, i + 1, hi2, lo2 % Half)

ParseUint(s) ==
    IF Len(s) = 0 THEN [err |-> TRUE, val |-> U32Zero]
    ELSE ParseUintFrom(s, 1, 0, 0)

(***************************************************************************)
(* int(f) for a float64 f that the int can hold: truncation toward zero of *)
(* the fraction n/d.                                                       *)
(***************************************************************************)
Trunc(n, d) == IF n >= 0 THEN n \div d ELSE 0 - ((0 - n) \div d)

(***************************************************************************)
(* The session object.  serverConn is "nil" before the dial, then "open",  *)
(* then "closed".  eventChannel is a channel: whether it is nil, its       *)
(* capacity, its buffered events and the senders parked on it.             *)
(***************************************************************************)
NilChan == [nil |-> TRUE, cap |-> 0, buf |-> <<>>, sendq |-> <<>>]

NoSession == "none"

\* NewUpSession: the fields it does not set keep the zero value of their type
NewUpSession(ids) ==
    [stat |-> StatDisconnected,
     sessionID |-> U32Zero,
     versionMask |-> U32Zero,
     extraNonce2Size |-> 0,
     serverCapsVerRol |-> FALSE,
     serverCapsSubRes |-> FALSE,
     serverConn |-> "nil",
     stratumSessions |-> [i \in ids |-> NoSession],
     eventChannel |-> NilChan]

\* close
close(up) == [up EXCEPT !.stat = StatDisconnected, !.serverConn = "closed"]

(***************************************************************************)
(* The inbound byte stream, as tokens: one byte; one whole line (its bytes *)
(* up to and including the newline, none of them 0x04, 0x0A before the end *)
(* or the magic byte); or the rest of a line whose first bytes were        *)
(* consumed by another read.                                               *)
(***************************************************************************)
ExMessageMagicNumber == 127
NewLine == 10
ExHeaderLen == 4

Byte(v) == [t |-> "byte", v |-> v, j |-> [ok |-> FALSE]]
Line(j) == [t |-> "line", v |-> 0, j |-> j]
PartialLine == [t |-> "part", v |-> 0, j |-> [ok |-> FALSE]]

\* the text of a line that is no JSON, and of a line that is a JSON-RPC object
BadJSON == [ok |-> FALSE]
RPC(id, method, params, result) ==
    [ok |-> TRUE, ID |-> id, Method |-> method, Params |-> params, Result |-> result]

\* NewJSONRPCLine: the decoded line, or an error
NewJSONRPCLine(jsonBytes) ==
    IF jsonBytes.ok
    THEN [err |-> FALSE, ID |-> jsonBytes.ID, Method |-> jsonBytes.Method,
          Params |-> jsonBytes.Params, Result |-> jsonBytes.Result]
    ELSE [err |-> TRUE, ID |-> "", Method |-> "", Params |-> <<>>, Result |-> JNull]

\* the first byte of a token, as Peek(1) returns it ("{" for a line)
FirstByte(tok) == IF tok.t = "byte" THEN tok.v ELSE 123

\* whether a token ends with the delimiter
EndsWith(tok, delim) ==
    IF tok.t = "byte" THEN tok.v = delim ELSE delim = NewLine

\* bufio.Reader.ReadBytes(delim): the tokens up to and including the first
\* one that ends with delim; short when the data at hand holds no delim
ReadBytes(in, delim) ==
    IF \E i \in 1..Len(in) : EndsWith(in[i], delim)
    THEN LET n == CHOOSE i \in 1..Len(in) :
                     /\ EndsWith(in[i], delim)
                     /\ \A h \in 1..(i - 1) : ~EndsWith(in[h], delim)
         IN [short |-> FALSE, data |-> SubSeq(in, 1, n), rest |-> SubSeq(in, n + 1, Len(in))]
    ELSE [short |-> TRUE, data |-> in, rest |-> <<>>]

\* bufio.Reader.Discard(n): n bytes fewer; a line that loses some of its
\* bytes is left as the rest of a line (every line is longer than n)
RECURSIVE Discard(_, _)
Discard(in, n) ==
    IF n = 0 THEN [short |-> FALSE, rest |-> in]
    ELSE IF Len(in) = 0 THEN [short |-> TRUE, rest |-> in]
    ELSE IF in[1].t = "byte" THEN Discard(Tail(in), n - 1)
    ELSE [short |-> FALSE, rest |-> <<PartialLine>> \o Tail(in)]

\* binary.LittleEndian.Uint16(b)
Uint16(b) == FirstByte(b[1]) + 256 * FirstByte(b[2])

\* the text ReadBytes('\n') returned: one whole line is its own text; bytes
\* before a line, or the rest of a line, are no JSON
JSONText(data) ==
    IF Len(data) = 1 /\ data[1].t = "line" THEN data[1].j ELSE BadJSON

(***************************************************************************)
(* The handlers of the handshake responses.  Each takes the session and    *)
(* the decoded line and gives the session after it.                        *)
(***************************************************************************)
\* a variant that stores the parsed value without testing the error
handleSetVersionMaskIgnoresErr(up, rpcData) ==
    IF Len(rpcData.Params) > 0
    THEN IF ~IsStr(rpcData.Params[1]) THEN up
         ELSE [up EXCEPT !.versionMask = ParseUint(rpcData.Params[1].s).val]
    ELSE up

\* handleSetVersionMask
handleSetVersionMask(up, rpcData) ==
    IF Len(rpcData.Params) > 0
    THEN IF ~IsStr(rpcData.Params[1]) THEN up
         ELSE LET versionMask == ParseUint(rpcData.Params[1].s)
              IN IF versionMask.err THEN up
                 ELSE [up EXCEPT !.versionMask = versionMask.val]
    ELSE up

\* the build's int(f) for a float64 the int cannot hold: a build that gives
\* the least int ("indefinite"), or one that saturates
Builds == {"indefinite", "saturating"}

IntOfFloat(v, build) ==
    IF v.fin THEN Trunc(v.num, v.den)
    ELSE IF build = "saturating" /\ v.num > 0 THEN MaxInt
    ELSE MinInt

MinExtraNonce2Size == 6

\* a variant whose test of the width lacks the return after close
handleSubScribeResponseNoReturn(up, rpcData, build) ==
    IF ~IsArr(rpcData.Result) THEN close(up)
    ELSE IF Len(rpcData.Result.a) < 3 THEN close(up)
    ELSE IF ~IsStr(rpcData.Result.a[2]) THEN close(up)
    ELSE LET sessionID == ParseUint(rpcData.Result.a[2].s)
         IN IF sessionID.err THEN close(up)
            ELSE LET up1 == [up EXCEPT !.sessionID = sessionID.val]
                 IN IF ~IsNum(rpcData.Result.a[3]) THEN close(up1)
                    ELSE LET up2 == [up1 EXCEPT !.extraNonce2Size =
                                        IntOfFloat(rpcData.Result.a[3], build)]
                         IN IF up2.extraNonce2Size < MinExtraNonce2Size
                            THEN [close(up2) EXCEPT !.stat = StatSubScribed]
                            ELSE [up2 EXCEPT !.stat = StatSubScribed]

\* a variant that also refuses a width of exactly 6
handleSubScribeResponseOffByOne(up, rpcData, build) ==
    IF ~IsArr(rpcData.Result) THEN close(up)
    ELSE IF Len(rpcData.Result.a) < 3 THEN close(up)
    ELSE IF ~IsStr(rpcData.Result.a[2]) THEN close(up)
    ELSE LET sessionID == ParseUint(rpcData.Result.a[2].s)
         IN IF sessionID.err THEN close(up)
            ELSE LET up1 == [up EXCEPT !.sessionID = sessionID.val]
                 IN IF ~IsNum(rpcData.Result.a[3]) THEN close(up1)
                    ELSE LET up2 == [up1 EXCEPT !.extraNonce2Size =
                                        IntOfFloat(rpcData.Result.a[3], build)]
                         IN IF up2.extraNonce2Size <= MinExtraNonce2Size THEN close(up2)
                            ELSE [up2 EXCEPT !.stat = StatSubScribed]

\* handleSubScribeResponse
handleSubScribeResponse(up, rpcData, build) ==
    IF ~IsArr(rpcData.Result) THEN close(up)
    ELSE IF Len(rpcData.Result.a) < 3 THEN close(up)
    ELSE IF ~IsStr(rpcData.Result.a[2]) THEN close(up)
    ELSE LET sessionID == ParseUint(rpcData.Result.a[2].s)
         IN IF sessionID.err THEN close(up)
            ELSE LET up1 == [up EXCEPT !.sessionID = sessionID.val]
                 IN IF ~IsNum(rpcData.Result.a[3]) THEN close(up1)
                    ELSE LET up2 == [up1 EXCEPT !.extraNonce2Size =
                                        IntOfFloat(rpcData.Result.a[3], build)]
                         IN IF up2.extraNonce2Size < MinExtraNonce2Size THEN close(up2)
                            ELSE [up2 EXCEPT !.stat = StatSubScribed]

\* handleConfigureResponse
handleConfigureResponse(up, rpcData) == up

\* the capability strings
CapVerRol == <<"v", "e", "r", "r", "o", "l">>
CapSubRes == <<"s", "u", "b", "r", "e", "s">>

\* the loop of handleGetCapsResponse over the array, from element i on
RECURSIVE RangeCaps(_, _, _)
RangeCaps(up, capsArr, i) ==
    IF i > Len(capsArr) THEN up
    ELSE LET capability == capsArr[i]
             up1 == IF IsStr(capability) /\ capability.s = CapVerRol
                    THEN [up EXCEPT !.serverCapsVerRol = TRUE]
                    ELSE IF IsStr(capability) /\ capability.s = CapSubRes
                    THEN [up EXCEPT !.serverCapsSubRes = TRUE]
                    ELSE up
         IN RangeCaps(up1, capsArr, i + 1)

\* a variant that closes the session when the result is no object
handleGetCapsResponseReturns(up, rpcData) ==
    IF ~IsObj(rpcData.Result) THEN close(up)
    ELSE LET caps == IF "capabilities" \in rpcData.Result.fields
                     THEN rpcData.Result.caps ELSE JNull
             capsArr == IF IsArr(caps) THEN caps.a ELSE <<>>
         IN RangeCaps(up, capsArr, 1)

\* handleGetCapsResponse: a failed assertion leaves the zero value (a nil map,
\* a nil interface, a nil slice) and the function goes on
handleGetCapsResponse(up, rpcData) ==
    LET result == IF IsObj(rpcData.Result) THEN rpcData.Result ELSE JObj({}, JNull)
        caps == IF "capabilities" \in result.fields THEN result.caps ELSE JNull
        capsArr == IF IsArr(caps) THEN caps.a ELSE <<>>
    IN RangeCaps(up, capsArr, 1)

\* a variant that tests only the type of the result
handleAuthorizeResponseAnyBool(up, rpcData) ==
    IF ~IsBool(rpcData.Result) THEN close(up)
    ELSE [up EXCEPT !.stat = StatAuthorized]

\* handleAuthorizeResponse
handleAuthorizeResponse(up, rpcData) ==
    IF ~IsBool(rpcData.Result) \/ ~rpcData.Result.b THEN close(up)
    ELSE [up EXCEPT !.stat = StatAuthorized]

(***************************************************************************)
(* The reads of the handshake loop.  Each gives the session and the unread *)
(* stream after it, and how it ended: "ok"; "short" when the data at hand  *)
(* does not satisfy a read (the read blocks, or fails on a read error);    *)
(* "panic" when the code indexes a slice out of its range.                 *)
(***************************************************************************)
\* disc is the number of bytes Discard was asked to skip
Res(up, in, st, disc) == [up |-> up, in |-> in, st |-> st, disc |-> disc]

\* whether the data read holds at least n bytes (a line holds more than n)
HasBytes(data, n) == Len(data) >= n \/ \E i \in 1..Len(data) : data[i].t # "byte"

\* the argument of ReadBytes in initReadExMessage: a delimiter byte
ExHeaderDelim == 4

\* initReadExMessage
initReadExMessage(up, in) ==
    LET header == ReadBytes(in, ExHeaderDelim)
    IN IF header.short THEN Res(up, in, "short", 0)
       ELSE IF ~HasBytes(header.data, 4) THEN Res(up, header.rest, "panic", 0)
       ELSE LET len == Uint16(SubSeq(header.data, 3, 4))
            IN IF len < ExHeaderLen THEN Res(close(up), header.rest, "ok", 0)
               ELSE IF len - ExHeaderLen > 0
               THEN LET d == Discard(header.rest, len - ExHeaderLen)
                    IN IF d.short THEN Res(up, in, "short", len - ExHeaderLen)
                       ELSE Res(up, d.rest, "ok", len - ExHeaderLen)
               ELSE Res(up, header.rest, "ok", 0)

\* a variant that closes the session on a line that does not decode
initReadLineClosesOnDecodeError(up, in, build) ==
    LET jsonBytes == ReadBytes(in, NewLine)
        rpcData == NewJSONRPCLine(JSONText(jsonBytes.data))
    IN IF jsonBytes.short THEN Res(up, in, "short", 0)
       ELSE IF rpcData.err THEN Res(close(up), jsonBytes.rest, "ok", 0)
       ELSE IF rpcData.Method # ""
       THEN IF rpcData.Method = "mining.set_version_mask"
            THEN Res(handleSetVersionMask(up, rpcData), jsonBytes.rest, "ok", 0)
            ELSE Res(up, jsonBytes.rest, "ok", 0)
       ELSE CASE rpcData.ID = "sub" ->
                    Res(handleSubScribeResponse(up, rpcData, build), jsonBytes.rest, "ok", 0)
              [] rpcData.ID = "conf" ->
                    Res(handleConfigureResponse(up, rpcData), jsonBytes.rest, "ok", 0)
              [] rpcData.ID = "caps" ->
                    Res(handleGetCapsResponse(up, rpcData), jsonBytes.rest, "ok", 0)
              [] rpcData.ID = "auth" ->
                    Res(handleAuthorizeResponse(up, rpcData), jsonBytes.rest, "ok", 0)
              [] OTHER -> Res(up, jsonBytes.rest, "ok", 0)

\* initReadLine
initReadLine(up, in, build) ==
    LET jsonBytes == ReadBytes(in, NewLine)
        rpcData == NewJSONRPCLine(JSONText(jsonBytes.data))
    IN IF jsonBytes.short THEN Res(up, in, "short", 0)
       ELSE IF rpcData.err THEN Res(up, jsonBytes.rest, "ok", 0)
       ELSE IF rpcData.Method # ""
       THEN IF rpcData.Method = "mining.set_version_mask"
            THEN Res(handleSetVersionMask(up, rpcData), jsonBytes.rest, "ok", 0)
            ELSE Res(up, jsonBytes.rest, "ok", 0)
       ELSE CASE rpcData.ID = "sub" ->
                    Res(handleSubScribeResponse(up, rpcData, build), jsonBytes.rest, "ok", 0)
              [] rpcData.ID = "conf" ->
                    Res(handleConfigureResponse(up, rpcData), jsonBytes.rest, "ok", 0)
              [] rpcData.ID = "caps" ->
                    Res(handleGetCapsResponse(up, rpcData), jsonBytes.rest, "ok", 0)
              [] rpcData.ID = "auth" ->
                    Res(handleAuthorizeResponse(up, rpcData), jsonBytes.rest, "ok", 0)
              [] OTHER -> Res(up, jsonBytes.rest, "ok", 0)

\* initHandleResponse, when Peek does not fail
initHandleResponse(up, in, build) ==
    IF Len(in) = 0 THEN Res(up, in, "short", 0)
    ELSE IF FirstByte(in[1]) = ExMessageMagicNumber THEN initReadExMessage(up, in)
    ELSE initReadLine(up, in, build)

(***************************************************************************)
(* The state.                                                              *)
(*   up         the UpSession object                                       *)
(*   pc         where Init is: "new" (not called), "dial" (in              *)
(*              DialTimeout), "send" (before initSendRequest), "loop",     *)
(*              "returned", "panic"                                        *)
(*   inbound    the bytes the pool has sent and no read has consumed       *)
(*   attempted  the ids of the requests Write was called for, in order     *)
(*   failed     the ids of the requests whose Write returned an error      *)
(*   lastErr    the error the last call of writeJSONRequestToServer       *)
(*              returned                                                   *)
(*   consumed   the ids whose response a handler has accepted              *)
(*   sessions   the downstream sessions: their sessionID and upSession     *)
(*   callers    the goroutines that call AddStratumSession                 *)
(*   runPc      where the goroutine of Run is: "idle" (not started), "for" *)
(*              (at the receive of handleEvent), "parked" (waiting in it)  *)
(*   enqueued   the events whose send has completed, in order              *)
(*   applied    the events the loop of handleEvent has handled, in order   *)
(***************************************************************************)
VARIABLES up, pc, inbound, attempted, failed, lastErr, consumed, sessions, callers,
          runPc, enqueued, applied

vars == <<up, pc, inbound, attempted, failed, lastErr, consumed, sessions, callers,
          runPc, enqueued, applied>>
initVars == <<up, pc, inbound, attempted, failed, lastErr, consumed>>
runVars == <<sessions, callers, runPc, enqueued, applied>>

\* the ids of the four requests, in the order initSendRequest sends them
ReqIDs == <<"sub", "conf", "caps", "auth">>
ReqIDSet == {ReqIDs[i] : i \in 1..Len(ReqIDs)}

NoErr == "nil"
ErrConnectionClosed == "ErrConnectionClosed"
ErrWrite == "write error"

\* a variant that tests the status for Disconnected only
writeJSONRequestToServerNoConnecting(u, werr) ==
    IF u.stat = StatDisconnected
    THEN [err |-> ErrConnectionClosed, wrote |-> FALSE]
    ELSE [err |-> werr, wrote |-> TRUE]

\* writeJSONRequestToServer: the error it returns and whether it called the
\* connection's Write, when Write returns werr
writeJSONRequestToServer(u, werr) ==
    IF u.stat = StatConnecting \/ u.stat = StatDisconnected
    THEN [err |-> ErrConnectionClosed, wrote |-> FALSE]
    ELSE [err |-> werr, wrote |-> TRUE]

\* the value of err in initSendRequest after a call of
\* writeJSONRequestToServer that returned e: the call drops its results
ErrAfterWrite(e) == NoErr

\* initSendRequest from request i on: the error it returns, the requests
\* whose write it attempted and those whose write failed, and the error the
\* last call of writeJSONRequestToServer returned
RECURSIVE initSendRequestFrom(_, _, _, _, _, _)
initSendRequestFrom(u, i, werrs, att, fl, last) ==
    IF i > Len(ReqIDs)
    THEN [err |-> NoErr, attempted |-> att, failed |-> fl, last |-> last]
    ELSE LET e == writeJSONRequestToServer(u, werrs[i])
             err == ErrAfterWrite(e.err)
             att1 == IF e.wrote THEN Append(att, ReqIDs[i]) ELSE att
             fl1 == IF e.wrote /\ e.err # NoErr THEN fl \cup {ReqIDs[i]} ELSE fl
         IN IF err # NoErr
            THEN [err |-> err, attempted |-> att1, failed |-> fl1, last |-> e.err]
            ELSE initSendRequestFrom(u, i + 1, werrs, att1, fl1, e.err)

\* a variant without the subscribe request
initSendRequestWithoutSub(u, werrs) == initSendRequestFrom(u, 2, werrs, <<>>, {}, NoErr)

initSendRequest(u, werrs) == initSendRequestFrom(u, 1, werrs, <<>>, {}, NoErr)

\* the outcomes of the four writes, with at most n errors
WriteOutcomes(n) ==
    {w \in [1..Len(ReqIDs) -> {NoErr, ErrWrite}] :
        Cardinality({i \in 1..Len(ReqIDs) : w[i] # NoErr}) <= n}

(***************************************************************************)
(* Init, the method: connect, initSendRequest, the loop.                   *)
(***************************************************************************)
\* connect, up to the call of DialTimeout
connect ==
    /\ pc = "new"
    /\ up' = [up EXCEPT !.stat = StatConnecting]
    /\ pc' = "dial"
    /\ UNCHANGED <<inbound, attempted, failed, lastErr, consumed, runVars>>

\* a variant that leaves the status as it is when the dial fails
DialTimeoutKeepsConnecting(ok) ==
    /\ pc = "dial"
    /\ IF ok
       THEN /\ up' = [up EXCEPT !.stat = StatConnected, !.serverConn = "open"]
            /\ pc' = "send"
       ELSE /\ up' = up
            /\ pc' = "returned"
    /\ UNCHANGED <<inbound, attempted, failed, lastErr, consumed, runVars>>

\* connect, from the return of DialTimeout, and the test of its error in Init
DialTimeout(ok) ==
    /\ pc = "dial"
    /\ IF ok
       THEN /\ up' = [up EXCEPT !.stat = StatConnected, !.serverConn = "open"]
            /\ pc' = "send"
       ELSE /\ up' = [up EXCEPT !.stat = StatDisconnected]
            /\ pc' = "returned"
    /\ UNCHANGED <<inbound, attempted, failed, lastErr, consumed, runVars>>

\* the call of initSendRequest in Init, and the test of its error
SendRequests(werrs) ==
    /\ pc = "send"
    /\ LET r == initSendRequest(up, werrs)
       IN /\ attempted' = r.attempted
          /\ failed' = r.failed
          /\ lastErr' = r.last
          /\ IF r.err # NoErr
             THEN up' = close(up) /\ pc' = "returned"
             ELSE up' = up /\ pc' = "loop"
    /\ UNCHANGED <<inbound, consumed, runVars>>

\* a variant that goes on after the session was closed
LoopConditionNoDisconnected(u) ==
    u.stat # StatAuthorized /\ u.stat # StatConnecting

\* the condition of the loop of Init
LoopCondition(u) ==
    u.stat # StatAuthorized /\ u.stat # StatDisconnected /\ u.stat # StatConnecting

\* whether the reads of initHandleResponse wait for more data
Blocked == initHandleResponse(up, inbound, "indefinite").st = "short"

\* the response the next read would decode, when it is a line at hand
NextLine ==
    IF Len(inbound) > 0 /\ FirstByte(inbound[1]) # ExMessageMagicNumber
       /\ ~ReadBytes(inbound, NewLine).short
    THEN NewJSONRPCLine(JSONText(ReadBytes(inbound, NewLine).data))
    ELSE NewJSONRPCLine(BadJSON)

\* one turn of the loop of Init: initHandleResponse, with the data at hand
\* (r is its result, line the line it decoded); the turn waits while the
\* reads wait for data
HandleResponse(build) ==
    /\ pc = "loop"
    /\ LoopCondition(up)
    /\ \E r \in {initHandleResponse(up, inbound, build)}, line \in {NextLine} :
          /\ r.st # "short"
          /\ up' = r.up
          /\ inbound' = r.in
          /\ pc' = IF r.st = "panic" THEN "panic" ELSE "loop"
          /\ consumed' =
                IF /\ ~line.err
                   /\ line.Method = ""
                   /\ line.ID \in ReqIDSet
                   /\ r.up.stat # StatDisconnected
                THEN consumed \cup {line.ID}
                ELSE consumed
    /\ UNCHANGED <<attempted, failed, lastErr, runVars>>

\* one turn of the loop of Init in which Peek, ReadBytes or Discard returns an
\* error (the peer closed the connection, or the read failed)
ReadFails ==
    /\ pc = "loop"
    /\ LoopCondition(up)
    /\ Blocked
    /\ up' = close(up)
    /\ inbound' = <<>>
    /\ UNCHANGED <<pc, attempted, failed, lastErr, consumed, runVars>>

\* the loop of Init ends and Init returns
InitReturn ==
    /\ pc = "loop"
    /\ ~LoopCondition(up)
    /\ pc' = "returned"
    /\ UNCHANGED <<up, inbound, attempted, failed, lastErr, consumed, runVars>>

\* the pool sends one unit, the tokens of one element of units, while a read
\* waits for data
PoolSend(units) ==
    /\ pc = "loop"
    /\ LoopCondition(up)
    /\ Blocked
    /\ \E u \in units :
          /\ Len(inbound) + Len(u) <= MaxInbound
          /\ inbound' = inbound \o u
    /\ UNCHANGED <<up, pc, attempted, failed, lastErr, consumed, runVars>>

\* a call of writeJSONRequestToServer from outside Init, with request id id:
\* before Init, while connect waits in DialTimeout, or after Init returned
MaxWrites == 2
WriteIDs == {"submit"}

WriteRequest(id, werr) ==
    /\ pc \in {"new", "dial", "returned"}
    /\ Len(attempted) < Len(ReqIDs) + MaxWrites
    /\ LET e == writeJSONRequestToServer(up, werr)
       IN /\ lastErr' = e.err
          /\ attempted' = IF e.wrote THEN Append(attempted, id) ELSE attempted
          /\ failed' = IF e.wrote /\ e.err # NoErr THEN failed \cup {id} ELSE failed
    /\ UNCHANGED <<up, pc, inbound, consumed, runVars>>

(***************************************************************************)
(* The units the pool sends in the model.                                  *)
(***************************************************************************)
\* hexadecimal strings and others
Hex0a == <<"0", "a">>
HexFFFFFFFF == <<"F", "F", "f", "f", "f", "f", "f", "f">>
Hex100000000 == <<"1", "0", "0", "0", "0", "0", "0", "0", "0">>
Hex1fffe000 == <<"1", "f", "f", "f", "e", "0", "0", "0">>
Hex0000000001 == <<"0", "0", "0", "0", "0", "0", "0", "0", "0", "1">>
NotHex == <<"0", "x", "1">>

SubResult(sid, n) == JArr(<<JNull, sid, n>>)
CapsResult(arr) == JObj({"capabilities"}, JArr(arr))

Response(id, result) == RPC(id, "", <<>>, result)
Request(id, method, params) == RPC(id, method, params, JNull)

\* the lines of the handshake scenarios
Lines ==
    { Response("sub", SubResult(JStr(Hex0a), JNum(8, 1))),
      Response("sub", SubResult(JStr(Hex0a), JNum(5, 1))),
      Response("sub", JNull),
      Response("conf", JObj({}, JNull)),
      Response("caps", CapsResult(<<JStr(CapVerRol), JStr(CapSubRes)>>)),
      Response("caps", JNull),
      Response("auth", JBool(TRUE)),
      Response("auth", JBool(FALSE)),
      Response("1", JBool(TRUE)),
      Request("", "mining.notify", <<>>),
      Request("", "mining.set_version_mask", <<JStr(Hex1fffe000)>>),
      RPC("auth", "client.reconnect", <<>>, JBool(TRUE)),
      BadJSON }

\* the lines of the scenarios that exercise the handlers: every shape of a
\* response the handlers tell apart, and the requests of the pool
SidElems ==
    { JStr(Hex0a), JStr(HexFFFFFFFF), JStr(Hex0000000001), JStr(Hex100000000),
      JStr(NotHex), JStr(<<>>), JNum(10, 1) }
WidthElems ==
    { JNum(5, 1), JNum(59, 10), JNum(6, 1), JNum(13, 2), JNum(16, 1), JNum(0 - 1, 1),
      JHuge(1), JHuge(0 - 1), JStr(<<"8">>), JNull }
SubResults ==
    { SubResult(sid, n) : sid \in SidElems, n \in WidthElems }
    \cup { JNull, JBool(TRUE), JArr(<<JNull, JStr(Hex0a)>>),
           JArr(<<JNull, JStr(Hex0a), JNum(8, 1), JNull>>) }
CapsResults ==
    { CapsResult(arr) :
        arr \in { <<>>, <<JStr(CapVerRol)>>, <<JStr(CapSubRes)>>,
                  <<JStr(CapVerRol), JStr(CapSubRes)>>,
                  <<JStr(Hex0a), JNum(1, 1), JStr(CapVerRol)>>, <<JNull>> } }
    \cup { JNull, JObj({}, JNull), JObj({"capabilities"}, JStr(CapVerRol)) }
AuthResults == { JBool(TRUE), JBool(FALSE), JNull, JStr(<<"t", "r", "u", "e">>) }
MaskParams ==
    { <<>>, <<JNum(1, 1)>>, <<JStr(NotHex)>>, <<JStr(Hex100000000)>>,
      <<JStr(Hex1fffe000)>>, <<JStr(HexFFFFFFFF), JNull>> }

WideLines ==
    { Response("sub", r) : r \in SubResults }
    \cup { Response("caps", r) : r \in CapsResults }
    \cup { Response("auth", r) : r \in AuthResults }
    \cup { Response(id, r) : id \in {"conf", "1"}, r \in {JNull, JBool(TRUE)} }
    \cup { Request("", "mining.set_version_mask", ps) : ps \in MaskParams }
    \cup { Request("", m, <<JStr(Hex1fffe000)>>) :
             m \in {"mining.set_difficulty", "mining.notify", "client.reconnect"} }
    \cup { RPC(id, "mining.notify", <<JStr(Hex1fffe000)>>, r) :
             id \in {"sub", "auth"},
             r \in {JBool(TRUE), SubResult(JStr(Hex0a), JNum(8, 1))} }
    \cup { BadJSON }

WideUnits == { <<Line(l)>> : l \in WideLines }

\* the bytes of an Ex-Message header and body in the model: a type is 1 or 4,
\* a body byte 0 or 4, the high byte of a length 0
TypeBytes == {1, 4}
BodyBytes == {0, 4}

\* the tokens of a frame with type t, declared length len and the body given
Frame(t, len, body) ==
    <<Byte(ExMessageMagicNumber), Byte(t), Byte(len % 256), Byte(len \div 256)>>
    \o [i \in 1..Len(body) |-> Byte(body[i])]

BodyLen(len) == IF len > ExHeaderLen THEN len - ExHeaderLen ELSE 0

Frames ==
    UNION { { Frame(t, len, body) : body \in [1..BodyLen(len) -> BodyBytes] } :
            t \in TypeBytes, len \in 3..MaxExLen }

Units == { <<Line(l)>> : l \in Lines } \cup Frames

(***************************************************************************)
(* The attach path.  A downstream session has a sessionID and a reference  *)
(* to its upstream session, "nil" until SetUpSession.  A caller is a       *)
(* goroutine that calls AddStratumSession or SendEvent once.               *)
(***************************************************************************)
MaxCallers == 3
Callers == 1..MaxCallers
Handles == {"s1", "s2", "s3", "s4"}
SessionIDs == {1, 2}

EventAddStratumSession(h) == [type |-> "EventAddStratumSession", Session |-> h]
OtherEvent == [type |-> "other", Session |-> NoSession]

\* StratumSession.SetUpSession
SetUpSession(ss, h) == [ss EXCEPT ![h].upSession = "up"]

\* a variant that keeps the entry an identifier already has
addStratumSessionKeepsEntry(u, ss, e) ==
    [up |-> IF u.stratumSessions[ss[e.Session].sessionID] = NoSession
            THEN [u EXCEPT !.stratumSessions[ss[e.Session].sessionID] = e.Session]
            ELSE u,
     sessions |-> SetUpSession(ss, e.Session)]

\* addStratumSession: the session object and the downstream sessions after it
addStratumSession(u, ss, e) ==
    [up |-> [u EXCEPT !.stratumSessions[ss[e.Session].sessionID] = e.Session],
     sessions |-> SetUpSession(ss, e.Session)]

\* the body of the loop of handleEvent, for the event received
handleEventBody(u, ss, event) ==
    IF event.type = "EventAddStratumSession"
    THEN addStratumSession(u, ss, event)
    ELSE [up |-> u, sessions |-> ss]

\* whether a send on the channel completes at once: there is room in the
\* buffer, or the receiver waits on a channel with no buffer
CanSend(ch) ==
    /\ ~ch.nil
    /\ \/ Len(ch.buf) < ch.cap
       \/ ch.cap = 0 /\ runPc = "parked" /\ Len(ch.buf) = 0

\* SendEvent by caller c: the send completes and the caller returns, or the
\* caller parks: in the queue of the channel, or for ever on a nil channel
SendEvent(c, event) ==
    /\ callers[c].pc = "idle"
    /\ IF CanSend(up.eventChannel)
       THEN /\ up' = [up EXCEPT !.eventChannel.buf = Append(@, event)]
            /\ callers' = [callers EXCEPT ![c] = [pc |-> "returned", event |-> event]]
            /\ runPc' = IF runPc = "parked" THEN "for" ELSE runPc
            /\ enqueued' = Append(enqueued, event)
       ELSE /\ up' = IF up.eventChannel.nil THEN up
                     ELSE [up EXCEPT !.eventChannel.sendq = Append(@, c)]
            /\ callers' = [callers EXCEPT ![c] = [pc |-> "parked", event |-> event]]
            /\ runPc' = runPc
            /\ enqueued' = enqueued
    /\ UNCHANGED <<pc, inbound, attempted, failed, lastErr, consumed, sessions,
                   applied>>

\* AddStratumSession by caller c
AddStratumSession(c, h) == SendEvent(c, EventAddStratumSession(h))

\* SendEvent by caller c with an event of another type
SendOtherEvent(c) == SendEvent(c, OtherEvent)

\* Run: the goroutine enters the loop of handleEvent
Run ==
    /\ runPc = "idle"
    /\ runPc' = "for"
    /\ UNCHANGED <<initVars, sessions, callers, enqueued, applied>>

\* one turn of the loop of handleEvent: the receive and the switch.  The
\* receive takes the first buffered event, and the first parked sender's
\* event takes its place; with nothing to take the goroutine parks, for
\* ever on a nil channel.
handleEvent ==
    /\ runPc = "for"
    /\ LET ch == up.eventChannel
       IN IF ~ch.nil /\ (Len(ch.buf) > 0 \/ Len(ch.sendq) > 0)
          THEN LET event == IF Len(ch.buf) > 0 THEN Head(ch.buf)
                            ELSE callers[Head(ch.sendq)].event
                   buf1 == IF Len(ch.buf) > 0 THEN Tail(ch.buf) ELSE ch.buf
                   woken == IF Len(ch.sendq) > 0 THEN {Head(ch.sendq)} ELSE {}
                   buf2 == IF Len(ch.buf) > 0 /\ Len(ch.sendq) > 0
                           THEN Append(buf1, callers[Head(ch.sendq)].event)
                           ELSE buf1
                   sendq2 == IF Len(ch.sendq) > 0 THEN Tail(ch.sendq) ELSE ch.sendq
                   u1 == [up EXCEPT !.eventChannel.buf = buf2,
                                    !.eventChannel.sendq = sendq2]
                   r == handleEventBody(u1, sessions, event)
               IN /\ up' = r.up
                  /\ sessions' = r.sessions
                  /\ callers' = [c \in Callers |->
                                    IF c \in woken
                                    THEN [callers[c] EXCEPT !.pc = "returned"]
                                    ELSE callers[c]]
                  /\ runPc' = "for"
                  /\ enqueued' = IF Len(ch.sendq) > 0
                                 THEN Append(enqueued, callers[Head(ch.sendq)].event)
                                 ELSE enqueued
                  /\ applied' = Append(applied, event)
          ELSE /\ runPc' = "parked"
               /\ UNCHANGED <<up, sessions, callers, enqueued, applied>>
    /\ UNCHANGED <<pc, inbound, attempted, failed, lastErr, consumed>>

(***************************************************************************)
(* The specifications.  Init is the state after NewUpSession.              *)
(***************************************************************************)
SessionIDOf == [h \in Handles |-> IF h \in {"s2", "s4"} THEN 2 ELSE 1]

Init ==
    /\ up = NewUpSession(SessionIDs)
    /\ pc = "new"
    /\ inbound = <<>>
    /\ attempted = <<>>
    /\ failed = {}
    /\ lastErr = NoErr
    /\ consumed = {}
    /\ sessions = [h \in Handles |-> [sessionID |-> SessionIDOf[h], upSession |-> "nil"]]
    /\ callers = [c \in Callers |-> [pc |-> "idle", event |-> OtherEvent]]
    /\ runPc = "idle"
    /\ enqueued = <<>>
    /\ applied = <<>>

\* the handshake: one run of Init against a pool
Next ==
    \/ connect
    \/ \E ok \in BOOLEAN : DialTimeout(ok)
    \/ \E werrs \in WriteOutcomes(MaxWriteFails) : SendRequests(werrs)
    \/ \E build \in Builds : HandleResponse(build)
    \/ ReadFails
    \/ InitReturn
    \/ PoolSend(Units)

Spec == Init /\ [][Next]_vars

\* the scheduler runs the goroutine of Init whenever it can take a step (the
\* steps exclude one another), and a read that waits again and again for
\* data of the pool ends by failing
FairSpec ==
    /\ Spec
    /\ WF_vars(connect)
    /\ WF_vars(\E ok \in BOOLEAN : DialTimeout(ok))
    /\ WF_vars(\E werrs \in WriteOutcomes(MaxWriteFails) : SendRequests(werrs))
    /\ WF_vars(\E build \in Builds : HandleResponse(build))
    /\ WF_vars(InitReturn)
    /\ SF_vars(ReadFails)

\* the handshake with no write error, against a pool that sends lines of
\* every shape
LineNext ==
    \/ connect
    \/ \E ok \in BOOLEAN : DialTimeout(ok)
    \/ SendRequests([i \in 1..Len(ReqIDs) |-> NoErr])
    \/ \E build \in Builds : HandleResponse(build)
    \/ ReadFails
    \/ InitReturn
    \/ PoolSend(WideUnits)

LineSpec == Init /\ [][LineNext]_vars

\* the attach path: callers, Run and the loop of handleEvent
RunNext ==
    \/ \E c \in Callers, h \in Handles : AddStratumSession(c, h)
    \/ \E c \in Callers : SendOtherEvent(c)
    \/ Run
    \/ handleEvent

RunSpec == Init /\ [][RunNext]_vars

\* the scheduler runs every goroutine that can take a step
FairRunSpec == RunSpec /\ WF_vars(RunNext)

\* addStratumSession applied to any attach event, for downstream sessions with
\* any identifiers
AttachInit ==
    /\ up = NewUpSession(SessionIDs)
    /\ pc = "new"
    /\ inbound = <<>>
    /\ attempted = <<>>
    /\ failed = {}
    /\ lastErr = NoErr
    /\ consumed = {}
    /\ sessions \in [Handles -> [sessionID : SessionIDs, upSession : {"nil"}]]
    /\ callers = [c \in Callers |-> [pc |-> "idle", event |-> OtherEvent]]
    /\ runPc = "idle"
    /\ enqueued = <<>>
    /\ applied = <<>>

ApplyAddStratumSession(h) ==
    /\ LET r == addStratumSession(up, sessions, EventAddStratumSession(h))
       IN up' = r.up /\ sessions' = r.sessions
    /\ UNCHANGED <<pc, inbound, attempted, failed, lastErr, consumed, callers, runPc,
                   enqueued, applied>>

AttachNext == \E h \in Handles : ApplyAddStratumSession(h)

AttachSpec == AttachInit /\ [][AttachNext]_vars

\* the handshake, and callers of writeJSONRequestToServer outside Init
WriteNext ==
    \/ Next
    \/ \E id \in WriteIDs, werr \in {NoErr, ErrWrite} : WriteRequest(id, werr)

WriteSpec == Init /\ [][WriteNext]_vars

\* the handshake against a pool that sends responses that close the session
\* or end the handshake, with Run started and callers of AddStratumSession
TeardownUnits ==
    { <<Line(Response("sub", SubResult(JStr(Hex0a), JNum(8, 1))))>>,
      <<Line(Response("sub", JNull))>>,
      <<Line(Response("auth", JBool(FALSE)))>>,
      <<Line(Response("auth", JBool(TRUE)))>> }

TeardownNext ==
    \/ connect
    \/ \E ok \in BOOLEAN : DialTimeout(ok)
    \/ SendRequests([i \in 1..Len(ReqIDs) |-> NoErr])
    \/ \E build \in Builds : HandleResponse(build)
    \/ ReadFails
    \/ InitReturn
    \/ PoolSend(TeardownUnits)
    \/ \E c \in Callers : AddStratumSession(c, "s1")
    \/ Run
    \/ handleEvent

\* the scheduler runs every goroutine that can take a step
TeardownSpec == Init /\ [][TeardownNext]_vars /\ WF_vars(TeardownNext)

(***************************************************************************)
(* Notions the properties use.                                             *)
(***************************************************************************)
\* the loop of Init is about to take a turn
InLoop == pc = "loop" /\ LoopCondition(up)

\* one turn of the loop of Init
LoopTurn == (\E build \in Builds : HandleResponse(build)) \/ ReadFails

\* the unread stream starts with the four header bytes of an Ex-Message
FrameAtHead ==
    /\ Len(inbound) >= ExHeaderLen
    /\ \A i \in 1..ExHeaderLen : inbound[i].t = "byte"
    /\ inbound[1].v = ExMessageMagicNumber

\* the length that header declares
DeclaredLen == inbound[3].v + 256 * inbound[4].v

\* the stream without its first n bytes
Drop(in, n) == SubSeq(in, n + 1, Len(in))

\* the bytes the next turn asks Discard to skip
DiscardAsked == initHandleResponse(up, inbound, "indefinite").disc

(***************************************************************************)
(* C1.  Status is Authorized only after the responses to all four requests *)
(* (sub, conf, caps, auth) have been accepted by their handlers.           *)
(***************************************************************************)
C1_AuthorizedOnlyAfterAllFour ==
    up.stat = StatAuthorized => consumed = ReqIDSet

(***************************************************************************)
(* C2.  When the write of a request fails, the session is closed, no       *)
(* later request is sent and the loop is never entered.                    *)
(***************************************************************************)
C2_WriteFailureClosesAndStops ==
    failed # {} =>
        /\ up.stat = StatDisconnected
        /\ pc = "returned"
        /\ attempted[Len(attempted)] \in failed
        /\ Cardinality(failed) = 1

(***************************************************************************)
(* C3.  A turn of the loop that finds an Ex-Message whose header declares  *)
(* a length L >= 4 consumes exactly L bytes (the header, then a discard of *)
(* L - 4 bytes, none when L = 4) and leaves the status as it was.          *)
(***************************************************************************)
C3_ExMessageConsumesDeclaredLength ==
    [][ (InLoop /\ FrameAtHead /\ DeclaredLen >= ExHeaderLen /\ LoopTurn) =>
            /\ pc' = "loop"
            /\ inbound' = Drop(inbound, DeclaredLen)
            /\ DiscardAsked = DeclaredLen - ExHeaderLen
            /\ up'.stat = up.stat ]_vars

(***************************************************************************)
(* C4.  A turn of the loop that finds an Ex-Message whose header declares  *)
(* a length below 4 closes the session and asks for no discard.            *)
(***************************************************************************)
C4_ShortExMessageCloses ==
    [][ (InLoop /\ FrameAtHead /\ DeclaredLen < ExHeaderLen /\ LoopTurn) =>
            /\ up'.stat = StatDisconnected
            /\ pc' = "loop"
            /\ DiscardAsked = 0 ]_vars

(***************************************************************************)
(* C5.  With Run started, every call of AddStratumSession returns, and the *)
(* loop of handleEvent handles its event.                                  *)
(***************************************************************************)
\* caller c has called AddStratumSession
HasCalledAdd(c) ==
    callers[c].pc # "idle" /\ callers[c].event.type = "EventAddStratumSession"

\* the loop has handled event e
Handled(e) == \E i \in 1..Len(applied) : applied[i] = e

C5_AddStratumSessionReturns ==
    \A c \in Callers :
        (runPc # "idle" /\ HasCalledAdd(c))
            ~> (callers[c].pc = "returned" /\ Handled(callers[c].event))

(***************************************************************************)
(* C6.  The loop of handleEvent handles the events in the order of their   *)
(* sends, the mapping is at every moment the one that handling them one by *)
(* one in that order gives, and once every caller has called, every event  *)
(* gets handled (none is lost).                                            *)
(***************************************************************************)
\* the mapping after handling the events of es one by one, from mapping m
RECURSIVE MappingAfter(_, _)
MappingAfter(m, es) ==
    IF Len(es) = 0 THEN m
    ELSE MappingAfter(
            IF Head(es).type = "EventAddStratumSession"
            THEN [m EXCEPT ![sessions[Head(es).Session].sessionID] = Head(es).Session]
            ELSE m,
            Tail(es))

EmptyMapping == [i \in SessionIDs |-> NoSession]

AllHaveCalled == \A c \in Callers : callers[c].pc # "idle"

C6_EventsHandledInSendOrder ==
    /\ [](Len(applied) <= Len(enqueued) /\ applied = SubSeq(enqueued, 1, Len(applied)))
    /\ [](up.stratumSessions = MappingAfter(EmptyMapping, applied))
    /\ ((runPc # "idle" /\ AllHaveCalled)
            ~> (Len(applied) = MaxCallers
                /\ up.stratumSessions = MappingAfter(EmptyMapping, enqueued)))

(***************************************************************************)
(* C7.  addStratumSession stores the session under its own identifier and  *)
(* sets its reference to the upstream session; it changes no other entry;  *)
(* the mapping grows by one when the identifier was absent and keeps its   *)
(* size when it was present; so the mapping holds one entry for each       *)
(* identifier among the sessions attached.                                 *)
(***************************************************************************)
Present(m) == {i \in SessionIDs : m[i] # NoSession}
Attached == {h \in Handles : sessions[h].upSession = "up"}

C7_AttachStoresUnderOwnIdentifier ==
    /\ [][ \A h \in Handles :
             ApplyAddStratumSession(h) =>
                /\ up'.stratumSessions[sessions[h].sessionID] = h
                /\ sessions'[h].upSession = "up"
                /\ \A i \in SessionIDs \ {sessions[h].sessionID} :
                        up'.stratumSessions[i] = up.stratumSessions[i]
                /\ Cardinality(Present(up'.stratumSessions)) =
                        Cardinality(Present(up.stratumSessions))
                        + (IF up.stratumSessions[sessions[h].sessionID] = NoSession
                           THEN 1 ELSE 0) ]_vars
    /\ [](Cardinality(Present(up.stratumSessions)) =
            Cardinality({sessions[h].sessionID : h \in Attached}))

\* two identifiers are in the mapping, and one of them was attached twice:
\* the later session replaced the earlier
C7_Witness ==
    /\ Cardinality(Present(up.stratumSessions)) = 2
    /\ \E h \in Attached : up.stratumSessions[sessions[h].sessionID] # h

(***************************************************************************)
(* C8.  In a run of Init every change of the status goes forward in the    *)
(* order Disconnected, Connecting, Connected, SubScribed, Authorized, or   *)
(* goes to Disconnected; and once Init has begun, a status of Disconnected *)
(* never changes.                                                          *)
(***************************************************************************)
C8_StatusMonotonic ==
    [][ /\ \/ up'.stat = StatDisconnected
           \/ StatOrd(up'.stat) >= StatOrd(up.stat)
        /\ (pc # "new" /\ up.stat = StatDisconnected) => up'.stat = StatDisconnected
      ]_vars

\* Init has returned with the session closed after a subscribe response was
\* accepted: the status went up to SubScribed and then to Disconnected
C8_Witness ==
    pc = "returned" /\ up.stat = StatDisconnected /\ "sub" \in consumed

(***************************************************************************)
(* Notions of the properties of the subscribe handler.                     *)
(***************************************************************************)
\* the next turn of the loop decodes a response (no method) with this id
NextIsResponse(id) == ~NextLine.err /\ NextLine.Method = "" /\ NextLine.ID = id

\* the hexadecimal strings of the model that denote a 32-bit value, and the
\* value of each
KnownHex == {Hex0a, HexFFFFFFFF, Hex0000000001, Hex1fffe000}
HexValue(s) ==
    CASE s = Hex0a -> U32(0, 10)
      [] s = HexFFFFFFFF -> U32(65535, 65535)
      [] s = Hex0000000001 -> U32(0, 1)
      [] s = Hex1fffe000 -> U32(8191, 57344)

\* a subscribe result of at least 3 elements whose element 1 is a
\* hexadecimal string of a 32-bit value
HasSessionID(r) ==
    IsArr(r) /\ Len(r.a) >= 3 /\ IsStr(r.a[2]) /\ r.a[2].s \in KnownHex

\* a number of at least 6; a number below 6; a number the int can hold
AtLeast6(n) == IsNum(n) /\ IF n.fin THEN n.num >= 6 * n.den ELSE n.num > 0
Below6(n) == IsNum(n) /\ IF n.fin THEN n.num < 6 * n.den ELSE n.num < 0
FitsInt(n) == IsNum(n) /\ n.fin

\* the integer part of a number the int can hold
IntegerPart(n) ==
    CHOOSE k \in -1..16 :
        IF n.num >= 0 THEN k * n.den <= n.num /\ n.num < (k + 1) * n.den
        ELSE (k - 1) * n.den < n.num /\ n.num <= k * n.den

(***************************************************************************)
(* C9, as claimed.  A subscribe response whose result has at least 3       *)
(* elements, element 1 a hexadecimal string of a 32-bit value and element  *)
(* 2 a number of at least 6, sets the status to SubScribed and sessionID   *)
(* and extraNonce2Size to the decoded values.                              *)
(***************************************************************************)
C9_Original ==
    [][ (InLoop /\ NextIsResponse("sub") /\ HasSessionID(NextLine.Result)
         /\ AtLeast6(NextLine.Result.a[3])
         /\ \E build \in Builds : HandleResponse(build)) =>
            /\ up'.stat = StatSubScribed
            /\ up'.sessionID = HexValue(NextLine.Result.a[2].s)
            /\ FitsInt(NextLine.Result.a[3]) =>
                    up'.extraNonce2Size = IntegerPart(NextLine.Result.a[3]) ]_vars

(***************************************************************************)
(* C9, amended.  The same, for a number of at least 6 that the int type    *)
(* can hold.                                                               *)
(***************************************************************************)
C9_ValidSubscribeSetsSubScribed ==
    [][ (InLoop /\ NextIsResponse("sub") /\ HasSessionID(NextLine.Result)
         /\ AtLeast6(NextLine.Result.a[3]) /\ FitsInt(NextLine.Result.a[3])
         /\ \E build \in Builds : HandleResponse(build)) =>
            /\ up'.stat = StatSubScribed
            /\ up'.sessionID = HexValue(NextLine.Result.a[2].s)
            /\ up'.extraNonce2Size = IntegerPart(NextLine.Result.a[3]) ]_vars

\* a subscribe response with session id "FFffffff" and width 6 or 6.5 was
\* accepted
C9_Witness ==
    /\ up.stat = StatSubScribed
    /\ up.sessionID = U32(65535, 65535)
    /\ up.extraNonce2Size = 6
    /\ "sub" \in consumed

(***************************************************************************)
(* C10.  A subscribe response whose element 2 is a number below 6 closes   *)
(* the session: the status becomes Disconnected, whatever the other fields *)
(* of the response and whatever the status before.                         *)
(***************************************************************************)
C10_NarrowExtraNonce2Closes ==
    [][ (InLoop /\ NextIsResponse("sub") /\ IsArr(NextLine.Result)
         /\ Len(NextLine.Result.a) >= 3 /\ Below6(NextLine.Result.a[3])
         /\ \E build \in Builds : HandleResponse(build)) =>
            /\ up'.stat = StatDisconnected
            /\ up'.serverConn = "closed" ]_vars

\* a subscribe response was accepted, the status is SubScribed, and the next
\* turn of the loop takes a subscribe response whose width is below 6
C10_Witness ==
    /\ InLoop
    /\ up.stat = StatSubScribed
    /\ "sub" \in consumed
    /\ ~Blocked
    /\ NextIsResponse("sub")
    /\ IsArr(NextLine.Result)
    /\ Len(NextLine.Result.a) >= 3
    /\ Below6(NextLine.Result.a[3])

(***************************************************************************)
(* C11.  A turn of the loop that takes an authorize response (id auth, no  *)
(* method) sets the status to Authorized when the result is the boolean    *)
(* true, and closes the session (status Disconnected, connection closed)   *)
(* when the result is false, missing or no boolean; it changes no other    *)
(* field.                                                                  *)
(***************************************************************************)
C11_AuthorizeResponse ==
    [][ (InLoop /\ NextIsResponse("auth")
         /\ \E build \in Builds : HandleResponse(build)) =>
            IF NextLine.Result = JBool(TRUE)
            THEN up' = [up EXCEPT !.stat = StatAuthorized]
            ELSE up' = [up EXCEPT !.stat = StatDisconnected, !.serverConn = "closed"]
      ]_vars

\* the subscribe response and then an authorize response with result true
\* were accepted: the status is Authorized
C11_Witness ==
    /\ up.stat = StatAuthorized
    /\ {"sub", "auth"} \subseteq consumed

(***************************************************************************)
(* C12.  A turn of the loop that takes a line that does not decode (a line *)
(* that is no JSON, or the rest of a line) consumes that line and nothing  *)
(* else, changes no field of the session and leaves the loop running: the  *)
(* session and the unread stream are then those of a run in which the line *)
(* was never sent, so the units that follow are handled as in that run.    *)
(***************************************************************************)
\* the unread stream starts with a whole line that does not decode
BadLineAtHead ==
    /\ Len(inbound) > 0
    /\ inbound[1].t # "byte"
    /\ NextLine.err

C12_MalformedLineIgnored ==
    [][ (InLoop /\ BadLineAtHead /\ \E build \in Builds : HandleResponse(build)) =>
            /\ up' = up
            /\ pc' = "loop"
            /\ inbound' = Tail(inbound)
            /\ consumed' = consumed ]_vars

\* the status is SubScribed and the next turn of the loop takes a line that
\* does not decode
C12_Witness ==
    /\ InLoop
    /\ up.stat = StatSubScribed
    /\ BadLineAtHead

(***************************************************************************)
(* C13.  A turn of the loop that takes a capabilities response (id caps,   *)
(* no method) changes neither the status nor the connection, whatever the  *)
(* shape of the result; afterwards the version-rolling flag is true iff it *)
(* was true or the capabilities array holds "verrol", the submit-response  *)
(* flag is true iff it was true or the array holds "subres"; nothing else  *)
(* changes.                                                                *)
(***************************************************************************)
\* whether the result is an object whose capabilities field is an array
\* that holds the string s
Announces(result, s) ==
    /\ IsObj(result)
    /\ "capabilities" \in result.fields
    /\ IsArr(result.caps)
    /\ \E i \in 1..Len(result.caps.a) : result.caps.a[i] = JStr(s)

C13_CapabilitiesResponse ==
    [][ (InLoop /\ NextIsResponse("caps")
         /\ \E build \in Builds : HandleResponse(build)) =>
            /\ up' = [up EXCEPT
                        !.serverCapsVerRol = @ \/ Announces(NextLine.Result, CapVerRol),
                        !.serverCapsSubRes = @ \/ Announces(NextLine.Result, CapSubRes)]
            /\ up'.stat = up.stat
            /\ up'.serverConn = up.serverConn
            /\ pc' = "loop" ]_vars

\* a capabilities response that announced "verrol" and not "subres" was
\* handled, and the session is still Connected
C13_Witness ==
    /\ up.stat = StatConnected
    /\ "caps" \in consumed
    /\ up.serverCapsVerRol
    /\ ~up.serverCapsSubRes

(***************************************************************************)
(* C14.  A call of writeJSONRequestToServer while the status is Connecting *)
(* or Disconnected returns ErrConnectionClosed, does not call the          *)
(* connection's Write and changes nothing of the session.                  *)
(***************************************************************************)
C14_WriteOnClosedConnection ==
    [][ \A id \in WriteIDs, werr \in {NoErr, ErrWrite} :
          (up.stat \in {StatConnecting, StatDisconnected} /\ WriteRequest(id, werr)) =>
                /\ lastErr' = ErrConnectionClosed
                /\ attempted' = attempted
                /\ failed' = failed
                /\ up' = up ]_vars

\* the call was made while connect waited in DialTimeout, with the status
\* Connecting and no connection yet
C14_Witness ==
    /\ pc = "dial"
    /\ up.stat = StatConnecting
    /\ up.serverConn = "nil"
    /\ lastErr = ErrConnectionClosed
    /\ attempted = <<>>

(***************************************************************************)
(* C15.  Once close has torn the session down (status Disconnected, the    *)
(* connection closed), the loop of handleEvent, if it was started, exits,  *)
(* and it handles no event from then on.                                   *)
(***************************************************************************)
\* close has run
TornDown == up.stat = StatDisconnected /\ up.serverConn = "closed"

C15_EventLoopExitsOnTeardown ==
    /\ (TornDown /\ runPc # "idle") ~> (runPc \notin {"idle", "for", "parked"})
    /\ [][TornDown => applied' = applied]_vars

(***************************************************************************)
(* C16.  Whenever Init has returned, the status is Authorized or           *)
(* Disconnected; a dial that fails makes Init return with the status       *)
(* Disconnected, and no request is written without a connection.           *)
(***************************************************************************)
C16_InitReturnsAuthorizedOrDisconnected ==
    /\ [](pc = "returned" => up.stat \in {StatAuthorized, StatDisconnected})
    /\ [][DialTimeout(FALSE) =>
            /\ up'.stat = StatDisconnected
            /\ pc' = "returned"
            /\ attempted' = <<>>]_vars
    /\ [](up.serverConn = "nil" => attempted = <<>>)

\* Init has returned after a dial that failed
C16_Witness ==
    /\ pc = "returned"
    /\ up.stat = StatDisconnected
    /\ up.serverConn = "nil"
    /\ attempted = <<>>

(***************************************************************************)
(* C17.  In every state where the status is SubScribed or Authorized,      *)
(* extraNonce2Size is at least 6.                                          *)
(***************************************************************************)
C17_ExtraNonce2SizeOnceSubScribed ==
    up.stat \in {StatSubScribed, StatAuthorized} =>
        up.extraNonce2Size >= MinExtraNonce2Size

(***************************************************************************)
(* C18.  After a dial that succeeded, Init calls the connection's Write    *)
(* for the four requests in the order sub, conf, caps, auth, each once,    *)
(* and no turn of the loop reads from the connection before that.          *)
(***************************************************************************)
FourInOrder == <<"sub", "conf", "caps", "auth">>

C18_FourRequestsBeforeAnyRead ==
    /\ []((pc \in {"loop", "panic"} \/ (pc = "returned" /\ up.serverConn # "nil"))
            => attempted = FourInOrder)
    /\ [][((\E build \in Builds : HandleResponse(build)) \/ ReadFails)
            => (attempted = FourInOrder /\ attempted' = attempted)]_vars
    /\ [](pc \in {"new", "dial", "send"} => (attempted = <<>> /\ consumed = {}))

\* the four requests were written and then the subscribe response was read
C18_Witness ==
    /\ pc = "loop"
    /\ attempted = FourInOrder
    /\ failed = {}
    /\ consumed = {"sub"}

(***************************************************************************)
(* C19.  A turn of the loop that takes a line with a method (whatever its  *)
(* id), or a response whose id is conf or none of sub, caps, auth, changes *)
(* no field of the session except versionMask, which changes only when the *)
(* method is mining.set_version_mask and the first parameter is a          *)
(* hexadecimal string of a 32-bit value, and then to that value.           *)
(***************************************************************************)
\* the next turn takes a decoded line that is a request of the pool, or a
\* response that no handshake handler but the configure handler takes
RequestOrOtherResponse ==
    /\ ~NextLine.err
    /\ (NextLine.Method # "" \/ NextLine.ID \notin {"sub", "caps", "auth"})

\* whether that line sets the version mask
SetsVersionMask ==
    /\ NextLine.Method = "mining.set_version_mask"
    /\ Len(NextLine.Params) > 0
    /\ IsStr(NextLine.Params[1])
    /\ NextLine.Params[1].s \in KnownHex

C19_OtherLinesChangeOnlyVersionMask ==
    [][ (InLoop /\ RequestOrOtherResponse
         /\ \E build \in Builds : HandleResponse(build)) =>
            /\ up' = [up EXCEPT !.versionMask =
                        IF SetsVersionMask THEN HexValue(NextLine.Params[1].s) ELSE @]
            /\ sessions' = sessions
            /\ pc' = "loop" ]_vars

\* a mining.set_version_mask request with the mask "1fffe000" was handled
\* after the subscribe response, and the session is as that response left it
C19_Witness ==
    /\ up.versionMask = U32(8191, 57344)
    /\ up.stat = StatSubScribed
    /\ up.sessionID = U32(0, 10)

(***************************************************************************)
(* C20.  Init eventually returns, when every read that waits for data of   *)
(* the pool ends by getting data or by failing; and once the status is     *)
(* Authorized or Disconnected the loop takes no further turn: it reads     *)
(* nothing more and changes nothing of the session.                        *)
(***************************************************************************)
C20_HandshakeLoopTerminates ==
    /\ <>(pc = "returned")
    /\ [][(pc \in {"loop", "returned"} /\ ~LoopCondition(up)) =>
            (up' = up /\ inbound' = inbound /\ consumed' = consumed)]_vars

====
